---- MODULE Spec2Model ----
(***************************************************************************)
(* fujiwara/sloghandler: the metrics-counting slog handlers                *)
(* (prommetrics, otelmetrics) and the text log handler (logHandler).       *)
(***************************************************************************)
EXTENDS Integers, Sequences, FiniteSets, TLC

VARIABLES
    \* ---- metrics wrappers (prommetrics / otelmetrics) ----
    backend,      \* "prom" | "otel": which package's SlogHandler is in use
    options,      \* *Options handed to NewHandlerWithOptions
    minLevelSet,  \* whether the caller assigned Options.MinLevel at all
    constructed,  \* NewHandlerWithOptions has returned
    counter,      \* the counter backend: label values -> value
    derived,      \* the handler the program got from the wrapper's WithAttrs / WithGroup
    handled,      \* level -> number of Handle calls made on the wrapper itself
    derivedSeen,  \* records at or above MinLevel handled through the derived handler
    forwarded,    \* level -> number of records the wrapper passed to the downstream handler
    calls,        \* Handle calls made so far
    lastRet,      \* what the last Handle call on the wrapper returned
    lastDownRet,  \* what the downstream handler returned to that call
    twin,         \* the counter of the other package's wrapper, given the same
                  \* options and the same records
    rec           \* the record a single-call behaviour hands to Handle

mvars == <<backend, options, minLevelSet, constructed, counter, derived,
           handled, derivedSeen, forwarded, calls, lastRet, lastDownRet, twin>>

VARIABLES
    \* ---- text handler (logHandler) ----
    topts,        \* *HandlerOptions shared by the handler and its derived handlers
    noColor,      \* github.com/fatih/color's NoColor switch
    insts,        \* the logHandler instances, in order of creation
    muHolder,     \* mutex -> the goroutine holding it, or Free
    sink,         \* what the writer w has received, one entry per Write call
    pc,           \* goroutine -> where it stands in Handle
    loc,          \* goroutine -> Handle's locals
    ncalls        \* Handle calls started so far

tvars == <<topts, noColor, insts, muHolder, sink, pc, loc, ncalls>>

VARIABLES
    \* ---- package variables, Enabled, and the source path cache ----
    colors,       \* the package variables DebugColor, InfoColor, WarnColor, ErrorColor now
    query,        \* the last Enabled call: the handler asked, the level, the answers
    downLevel,    \* the minimum level of the handler a metrics wrapper embeds
    sopts,        \* the Source and SourceDepth fields of *HandlerOptions
    sourceCache,  \* h.sourceCache: sourceCacheKey -> the path stored for it
    fpc,          \* goroutine -> where it stands in getFilePath
    floc,         \* goroutine -> getFilePath's argument, locals and result
    nlookups      \* getFilePath calls started so far

xvars == <<colors, query, downLevel, sopts, sourceCache, fpc, floc, nlookups>>

VARIABLES
    \* ---- the unset minimum level, WithGroup, and fatal conditions ----
    levelSet,     \* whether the caller assigned HandlerOptions.Level at all
    grouped,      \* the last WithGroup call on a logHandler: receiver, name, result
    fatal         \* the panic an operation of the text handler ended in, or "none"

gvars == <<levelSet, grouped, fatal>>

\* what no operation of the metrics wrappers touches
outside == <<rec, tvars, xvars, gvars>>

vars == <<mvars, outside>>

(***************************************************************************)
(* Bounds                                                                  *)
(***************************************************************************)
MaxHandled == 2   \* Handle calls in one behaviour
MaxAttrs == 2     \* attributes carried by one record
MaxInsts == 3     \* logHandler instances: the root and those WithAttrs returned
MaxCalls == 2     \* Handle calls on the text handler in one behaviour
MaxDirs == 3      \* directories above the file in a source path
MaxDepth == 3     \* the largest SourceDepth tried
MaxLookups == 3   \* getFilePath calls in one behaviour

(***************************************************************************)
(* log/slog levels and values                                              *)
(***************************************************************************)
LevelDebug == -4
LevelInfo == 0
LevelWarn == 4
LevelError == 8
\* the zero value of slog.Level, which an Options literal leaves in MinLevel
ZeroLevel == 0

\* fmt's %+d
SignedString(n) == IF n >= 0 THEN "+" \o ToString(n) ELSE ToString(n)

LevelStr(base, val) == IF val = 0 THEN base ELSE base \o SignedString(val)

\* slog.Level.String()
LevelString(l) ==
    IF l < LevelInfo THEN LevelStr("DEBUG", l - LevelDebug)
    ELSE IF l < LevelWarn THEN LevelStr("INFO", l - LevelInfo)
    ELSE IF l < LevelError THEN LevelStr("WARN", l - LevelWarn)
    ELSE LevelStr("ERROR", l - LevelError)

StringValue(s) == [kind |-> "String", str |-> s, num |-> 0]
Int64Value(n) == [kind |-> "Int64", str |-> "", num |-> n]

\* slog.Value.String(): a string value as is, any other kind formatted
ValueString(v) == IF v.kind = "String" THEN v.str ELSE ToString(v.num)

Attr(k, v) == [Key |-> k, Value |-> v]

\* the attributes the loggers of the model attach to records
Attrs == { Attr("service", StringValue("auth")),
           Attr("service", Int64Value(42)),
           Attr("user", StringValue("bob")) }

SeqsUpTo(S, n) == UNION { [1..k -> S] : k \in 0..n }

AttrLists == SeqsUpTo(Attrs, MaxAttrs)

RecordLevels == {LevelDebug, LevelInfo, LevelWarn, LevelWarn + 1}

Records == [Level : RecordLevels, Attrs : AttrLists]

NoRecord == [Level |-> LevelInfo, Attrs |-> <<>>]

(***************************************************************************)
(* Options                                                                 *)
(***************************************************************************)
PredefinedLevels == <<LevelDebug, LevelInfo, LevelWarn, LevelError>>

DefaultOptions == [MinLevel |-> LevelInfo, LabelAttributes |-> <<>>]

LabelConfigs == { <<>>, <<"service">>, <<"user", "service">> }

MinLevels == {LevelDebug, LevelWarn}

\* the options a caller can hand over: MinLevel assigned, or left at its zero value
OptionsOf(set, m, la) ==
    [MinLevel |-> IF set THEN m ELSE ZeroLevel, LabelAttributes |-> la]

(***************************************************************************)
(* The counter backend                                                     *)
(***************************************************************************)
\* a counter that would be set to n instead of being raised by n
CounterSet(c, key, n) ==
    [k \in DOMAIN c \cup {key} |-> IF k = key THEN n ELSE c[k]]

\* counter.WithLabelValues(key...).Add(n) / counter.Add(ctx, n, WithAttributes(key...))
CounterAdd(c, key, n) ==
    IF key \in DOMAIN c THEN [c EXCEPT ![key] = @ + n] ELSE c @@ (key :> n)

\* attribute.String(k, v)
KeyValue(k, v) == <<k, v>>

\* what one element of a counter key says: prometheus label values are bare
\* strings, OpenTelemetry attributes are key/value pairs
LabelValue(b, e) == IF b = "prom" THEN e ELSE e[2]

(***************************************************************************)
(* NewHandlerWithOptions                                                   *)
(***************************************************************************)
PromInitLabels(opts, l) ==
    IF Len(opts.LabelAttributes) = 0
    THEN <<LevelString(l)>>
    ELSE [i \in 1..(Len(opts.LabelAttributes) + 1) |->
            IF i = 1 THEN LevelString(l) ELSE ""]

\* a pre-registration under the level attribute alone
OtelInitAttrsLevelOnly(opts, l) == <<KeyValue("level", LevelString(l))>>

OtelInitAttrs(opts, l) ==
    IF Len(opts.LabelAttributes) = 0
    THEN <<KeyValue("level", LevelString(l))>>
    ELSE [i \in 1..(Len(opts.LabelAttributes) + 1) |->
            IF i = 1 THEN KeyValue("level", LevelString(l))
            ELSE KeyValue(opts.LabelAttributes[i - 1], "")]

InitKey(b, opts, l) ==
    IF b = "prom" THEN PromInitLabels(opts, l) ELSE OtelInitAttrs(opts, l)

\* a strict comparison with MinLevel in the pre-registration loop
AboveMinOnly(l, opts) == l > opts.MinLevel

\* l >= opts.MinLevel
AtOrAboveMin(l, opts) == l >= opts.MinLevel

RECURSIVE InitLevels(_, _, _, _)
\* for _, l := range predefinedLevels { if l >= opts.MinLevel { ... Add(0) } }
InitLevels(b, opts, c, i) ==
    IF i > Len(PredefinedLevels) THEN c
    ELSE InitLevels(b, opts,
                    IF AtOrAboveMin(PredefinedLevels[i], opts)
                    THEN CounterAdd(c, InitKey(b, opts, PredefinedLevels[i]), 0)
                    ELSE c,
                    i + 1)

EmptyCounter == [k \in {} |-> 0]

\* prommetrics for otelmetrics and the other way round
OtherBackend(b) == IF b = "prom" THEN "otel" ELSE "prom"

NewHandlerWithOptions ==
    /\ ~constructed
    /\ constructed' = TRUE
    /\ counter' = InitLevels(backend, options, counter, 1)
    /\ twin' = InitLevels(OtherBackend(backend), options, twin, 1)
    /\ UNCHANGED <<outside, backend, options, minLevelSet, derived, handled, derivedSeen,
                   forwarded, calls, lastRet, lastDownRet>>

(***************************************************************************)
(* SlogHandler.Handle                                                      *)
(***************************************************************************)
RECURSIVE ScanAttrs(_, _, _, _)
\* r.Attrs(func(a slog.Attr) bool { if a.Key == attr { labels[i+1] = a.Value.String() }; return true })
ScanAttrs(attrs, name, cur, j) ==
    IF j > Len(attrs) THEN cur
    ELSE ScanAttrs(attrs, name,
                   IF attrs[j].Key = name THEN ValueString(attrs[j].Value) ELSE cur,
                   j + 1)

\* the scan without its key test: every attribute overwrites the label
LabelForAnyKey(r, name) ==
    IF Len(r.Attrs) = 0 THEN "" ELSE ValueString(r.Attrs[Len(r.Attrs)].Value)

RECURSIVE ScanAttrsFirst(_, _, _)
\* the scan stopped at the first attribute whose key matches
ScanAttrsFirst(attrs, name, j) ==
    IF j > Len(attrs) THEN ""
    ELSE IF attrs[j].Key = name THEN ValueString(attrs[j].Value)
    ELSE ScanAttrsFirst(attrs, name, j + 1)

LabelForFirst(r, name) == ScanAttrsFirst(r.Attrs, name, 1)

\* the label value for one configured attribute name: "" unless the scan finds it
\* a scan that would also look at the attributes bound with WithAttrs
LabelForWithBound(r, name) == ScanAttrs(derived.bound \o r.Attrs, name, "", 1)

LabelFor(r, name) == ScanAttrs(r.Attrs, name, "", 1)

\* labels that would hold only the values the record carries
RECURSIVE FoundLabels(_, _, _)
FoundLabels(opts, r, i) ==
    IF i > Len(opts.LabelAttributes) THEN <<>>
    ELSE (IF LabelFor(r, opts.LabelAttributes[i]) = "" THEN <<>>
          ELSE <<LabelFor(r, opts.LabelAttributes[i])>>)
         \o FoundLabels(opts, r, i + 1)
PromLabelsFoundOnly(opts, r) == <<LevelString(r.Level)>> \o FoundLabels(opts, r, 1)

PromLabels(opts, r) ==
    IF Len(opts.LabelAttributes) = 0
    THEN <<LevelString(r.Level)>>
    ELSE [i \in 1..(Len(opts.LabelAttributes) + 1) |->
            IF i = 1 THEN LevelString(r.Level)
            ELSE LabelFor(r, opts.LabelAttributes[i - 1])]

OtelAttrs(opts, r) ==
    IF Len(opts.LabelAttributes) = 0
    THEN <<KeyValue("level", LevelString(r.Level))>>
    ELSE [i \in 1..(Len(opts.LabelAttributes) + 1) |->
            IF i = 1 THEN KeyValue("level", LevelString(r.Level))
            ELSE KeyValue(opts.LabelAttributes[i - 1],
                          LabelFor(r, opts.LabelAttributes[i - 1]))]

HandleKey(b, opts, r) ==
    IF b = "prom" THEN PromLabels(opts, r) ELSE OtelAttrs(opts, r)

\* the level test off by one: a record exactly at MinLevel is skipped
BelowMinInclusive(r, opts) == r.Level <= opts.MinLevel

\* if r.Level < h.options.MinLevel { return h.Handler.Handle(ctx, r) }
BelowMin(r, opts) == r.Level < opts.MinLevel

\* the counter after Handle has looked at r
Counted(b, opts, c, r) ==
    IF BelowMin(r, opts) THEN c ELSE CounterAdd(c, HandleKey(b, opts, r), 1)

\* the delegation lost on the counting path
ForwardOnlyUncounted(opts, r) == IF r.Level < opts.MinLevel THEN 1 ELSE 0

\* how many times Handle calls h.Handler.Handle(ctx, r): once on either path
ForwardCount(opts, r) == 1

\* a Handle that would report success once the record is counted
ReturnedNilWhenCounted(opts, r, downErr) ==
    IF r.Level < opts.MinLevel THEN downErr ELSE "nil"

\* Handle's return value, given what the downstream handler returned
Returned(opts, r, downErr) == downErr

Errors == {"nil", "downstream error"}

\* Handle on the wrapper returned by NewHandlerWithOptions
Handle(r, downErr) ==
    /\ constructed
    /\ calls < MaxHandled
    /\ calls' = calls + 1
    /\ counter' = Counted(backend, options, counter, r)
    /\ twin' = Counted(OtherBackend(backend), options, twin, r)
    /\ handled' = [handled EXCEPT ![r.Level] = @ + 1]
    /\ forwarded' = [forwarded EXCEPT ![r.Level] = @ + ForwardCount(options, r)]
    /\ lastDownRet' = downErr
    /\ lastRet' = Returned(options, r, downErr)
    /\ UNCHANGED <<outside, backend, options, minLevelSet, constructed, derived, derivedSeen>>

(***************************************************************************)
(* WithAttrs / WithGroup: SlogHandler embeds slog.Handler and defines      *)
(* neither, so both are the embedded (downstream) handler's methods        *)
(***************************************************************************)
NoHandler == [kind |-> "none", bound |-> <<>>, groups |-> <<>>]

\* the handler h.WithAttrs(as) returns, h being the wrapper: the downstream
\* handler's derived handler, counting nothing
WithAttrsOf(as) == [kind |-> "downstream", bound |-> as, groups |-> <<>>]

\* the handler h.WithGroup(name) returns
WithGroupOf(name) == [kind |-> "downstream", bound |-> <<>>, groups |-> <<name>>]

BoundLists == { <<a>> : a \in Attrs }

GroupNames == {"g"}

WithAttrs(as) ==
    /\ constructed
    /\ derived' = WithAttrsOf(as)
    /\ UNCHANGED <<outside, backend, options, minLevelSet, constructed, counter, handled,
                   derivedSeen, forwarded, calls, lastRet, lastDownRet, twin>>

WithGroup(name) ==
    /\ constructed
    /\ derived' = WithGroupOf(name)
    /\ UNCHANGED <<outside, backend, options, minLevelSet, constructed, counter, handled,
                   derivedSeen, forwarded, calls, lastRet, lastDownRet, twin>>

\* Handle on the derived handler: the wrapper's Handle if the derived handler
\* is a wrapper, the downstream handler's own Handle otherwise
HandleDerived(r, downErr) ==
    /\ derived.kind # "none"
    /\ calls < MaxHandled
    /\ calls' = calls + 1
    /\ counter' = IF derived.kind = "wrapper"
                  THEN Counted(backend, options, counter, r) ELSE counter
    /\ twin' = IF derived.kind = "wrapper"
               THEN Counted(OtherBackend(backend), options, twin, r) ELSE twin
    /\ derivedSeen' = IF BelowMin(r, options) THEN derivedSeen ELSE derivedSeen + 1
    /\ UNCHANGED <<outside, backend, options, minLevelSet, constructed, derived, handled,
                   forwarded, lastRet, lastDownRet>>

(***************************************************************************)
(* The text handler: logHandler                                            *)
(***************************************************************************)
Goroutines == {"g1", "g2"}

Free == "free"

\* color.FgHiBlack, color.FgYellow, color.FgRed, color.Reset
FgHiBlack == 90
FgYellow == 33
FgRed == 31
ColorReset == 0

\* the package variables DebugColor, InfoColor, WarnColor, ErrorColor
DebugColor == FgHiBlack
InfoColor == 0
WarnColor == FgYellow
ErrorColor == FgRed

\* the escape sequence color.Color.format() / unformat() writes for an attribute
Escape(attr) == "ESC[" \o ToString(attr) \o "m"

\* the package variables as the var block initialises them
DefaultColors ==
    [debug |-> DebugColor, info |-> InfoColor, warn |-> WarnColor, error |-> ErrorColor]

\* the print functions built once, when the package is initialised, from the
\* values the color variables have then
debugColoredFprintFunc == DefaultColors.debug
warnColoredFprintFunc == DefaultColors.warn
errorColoredFprintFunc == DefaultColors.error

\* a FprintFunc that would not look at opts.Color
FprintColorWithoutOption(opts, level) ==
    CASE level = LevelDebug -> debugColoredFprintFunc
      [] level = LevelInfo -> colors.info
      [] level = LevelWarn -> warnColoredFprintFunc
      [] level = LevelError -> errorColoredFprintFunc
      [] OTHER -> 0

\* logHandler.FprintFunc: the color of the function it returns, 0 standing
\* for defaultFprintFunc; only InfoColor is read when the record is handled
FprintColor(opts, level) ==
    IF opts.Color
    THEN CASE level = LevelDebug -> debugColoredFprintFunc
           [] level = LevelInfo -> colors.info
           [] level = LevelWarn -> warnColoredFprintFunc
           [] level = LevelError -> errorColoredFprintFunc
           [] OTHER -> 0
    ELSE 0

\* record.Time.Format(TimeFormat)
TimeFormat == "2006-01-02T15:04:05.000Z07:00"
FormatTime(t) == IF TimeFormat = "2006-01-02T15:04:05.000Z07:00" THEN t \o ".000Z" ELSE t

\* one attribute as Handle and WithAttrs print it
\* a rendering that would print the colon for an empty key too
AttrFragmentAlwaysColon(a) == " [" \o a.Key \o ":" \o ValueString(a.Value) \o "]"

AttrFragment(a) ==
    IF a.Key = ""
    THEN " [" \o ValueString(a.Value) \o "]"
    ELSE " [" \o a.Key \o ":" \o ValueString(a.Value) \o "]"

RenderAttrs(attrs) == [i \in 1..Len(attrs) |-> AttrFragment(attrs[i])]

\* a buffer in which the level tag would carry a color of its own
LineWithColoredLevel(h, r) ==
    <<FormatTime(r.Time), Escape(FgYellow), " [" \o LevelString(r.Level) \o "]",
      Escape(ColorReset)>>
    \o h.preformatted
    \o RenderAttrs(r.Attrs)
    \o <<" " \o r.Message \o "\n">>

\* the buffer Handle builds before it takes the lock, one element per Fprintf
Line(h, r) ==
    <<FormatTime(r.Time), " [" \o LevelString(r.Level) \o "]">>
    \o h.preformatted
    \o RenderAttrs(r.Attrs)
    \o <<" " \o r.Message \o "\n">>

TextAttrs == { Attr("k1", StringValue("v1")), Attr("", Int64Value(42)) }

TextRecords ==
    [Time : {"2023-01-02T15:04:05"},
     Level : {LevelDebug, LevelInfo, LevelWarn, LevelError},
     Attrs : SeqsUpTo(TextAttrs, 1),
     Message : {"msg"}]

NoTextRecord ==
    [Time |-> "2023-01-02T15:04:05", Level |-> LevelInfo, Attrs |-> <<>>, Message |-> "msg"]

\* NewLogHandler(w, opts)
RootHandler == [preformatted |-> <<>>, mu |-> 1, parent |-> 0, given |-> <<>>]

\* the preformatted bytes of the handler h.WithAttrs(attrs) returns
WithAttrsPrefix(h, attrs) == RenderAttrs(attrs)

\* a WithAttrs that would give the new handler a mutex of its own
WithAttrsOwnMutex(i) == Len(insts) + 1

\* the mutex of the handler insts[i].WithAttrs returns: mu: h.mu
WithAttrsMutex(i) == insts[i].mu

\* the handler insts[i].WithAttrs(attrs) returns: &logHandler{...}
NewInstance(i, attrs) ==
    [preformatted |-> WithAttrsPrefix(insts[i], attrs),
     mu |-> WithAttrsMutex(i),
     parent |-> i,
     given |-> attrs]

\* a WithAttrs that would append the rendered attributes to the receiver's
\* own bytes
InstsAfterWithAttrsInPlace(i, attrs) ==
    Append([insts EXCEPT ![i].preformatted = @ \o RenderAttrs(attrs)],
           NewInstance(i, attrs))

\* the handlers there are after insts[i].WithAttrs(attrs): the bytes are
\* collected in a slice of the call's own, preformatted := []byte{}
InstsAfterWithAttrs(i, attrs) == Append(insts, NewInstance(i, attrs))

TextWithAttrs(i, attrs) ==
    /\ i \in 1..Len(insts)
    /\ Len(insts) < MaxInsts
    /\ insts' = InstsAfterWithAttrs(i, attrs)
    /\ UNCHANGED <<topts, noColor, muHolder, sink, pc, loc, ncalls, mvars, rec, gvars, xvars>>

\* a WithGroup that would return a handler of its own for the group
WithGroupNewHandler(i, name) == Len(insts) + 1

\* the handler insts[i].WithGroup(name) returns: return h
WithGroupResult(i, name) == i

TextGroupNames == {"", "g"}

TextWithGroup(i, name) ==
    /\ i \in 1..Len(insts)
    /\ grouped' = [recv |-> i, name |-> name, ret |-> WithGroupResult(i, name)]
    /\ UNCHANGED <<tvars, mvars, rec, levelSet, fatal, xvars>>

\* a panic nobody recovers ends the program
Running == fatal = "none"

IdleLocals ==
    [h |-> 1, r |-> NoTextRecord, buf |-> <<>>, fprint |-> 0, err |-> "nil",
     wfail |-> FALSE, call |-> 0]

\* Handle up to h.mu.Lock(): the line is built in a private buffer
TextHandleBegin(g, i, r) ==
    /\ Running
    /\ pc[g] = "idle"
    /\ i \in 1..Len(insts)
    /\ ncalls < MaxCalls
    /\ ncalls' = ncalls + 1
    /\ loc' = [loc EXCEPT ![g] = [h |-> i, r |-> r, buf |-> Line(insts[i], r),
                                  fprint |-> 0, err |-> "nil", wfail |-> FALSE,
                                  call |-> ncalls + 1]]
    /\ pc' = [pc EXCEPT ![g] = "lock"]
    /\ UNCHANGED <<topts, noColor, insts, muHolder, sink, mvars, rec, gvars, xvars>>

\* h.mu.Lock(), then the choice of the print function:
\* fprint := h.FprintFunc(record.Level)
TextHandleLock(g) ==
    /\ Running
    /\ pc[g] = "lock"
    /\ muHolder[insts[loc[g].h].mu] = Free
    /\ muHolder' = [muHolder EXCEPT ![insts[loc[g].h].mu] = g]
    /\ loc' = [loc EXCEPT ![g].fprint = FprintColor(topts, loc[g].r.Level)]
    /\ pc' = [pc EXCEPT ![g] =
                IF FprintColor(topts, loc[g].r.Level) # 0 /\ ~noColor
                THEN "start" ELSE "line"]
    /\ UNCHANGED <<topts, noColor, insts, sink, ncalls, mvars, rec, gvars, xvars>>

Chunk(g, part, bytes) == [call |-> loc[g].call, part |-> part, bytes |-> bytes]

\* one Write call on the sink: all of the bytes, or an error and none of them
SinkWrite(g, part, bytes, ok) == IF ok THEN Append(sink, Chunk(g, part, bytes)) ELSE sink

\* color.Color.SetWriter: the escape sequence that starts the color
TextWriteStart(g, ok) ==
    /\ Running
    /\ pc[g] = "start"
    /\ sink' = SinkWrite(g, "start", <<Escape(loc[g].fprint)>>, ok)
    /\ loc' = [loc EXCEPT ![g].wfail = @ \/ ~ok]
    /\ pc' = [pc EXCEPT ![g] = "line"]
    /\ UNCHANGED <<topts, noColor, insts, muHolder, ncalls, mvars, rec, gvars, xvars>>

\* the error Handle keeps from writing the line: fprint(h.w, buf.String())
\* returns nothing, h.w.Write(buf.Bytes()) returns the write's error
LineErr(opts, ok) == IF opts.Color THEN "nil" ELSE IF ok THEN "nil" ELSE "write error"

\* the line itself: fprint(h.w, buf.String()) or h.w.Write(buf.Bytes())
TextWriteLine(g, ok) ==
    /\ Running
    /\ pc[g] = "line"
    /\ sink' = SinkWrite(g, "line", loc[g].buf, ok)
    /\ loc' = [loc EXCEPT ![g].wfail = @ \/ ~ok,
                          ![g].err = LineErr(topts, ok)]
    /\ pc' = [pc EXCEPT ![g] =
                IF loc[g].fprint # 0 /\ ~noColor
                THEN "reset" ELSE "ret"]
    /\ UNCHANGED <<topts, noColor, insts, muHolder, ncalls, mvars, rec, gvars, xvars>>

\* color.Color.UnsetWriter: the reset sequence
TextWriteReset(g, ok) ==
    /\ Running
    /\ pc[g] = "reset"
    /\ sink' = SinkWrite(g, "reset", <<Escape(ColorReset)>>, ok)
    /\ loc' = [loc EXCEPT ![g].wfail = @ \/ ~ok]
    /\ pc' = [pc EXCEPT ![g] = "ret"]
    /\ UNCHANGED <<topts, noColor, insts, muHolder, ncalls, mvars, rec, gvars, xvars>>

\* return err, with the deferred h.mu.Unlock()
TextHandleReturn(g) ==
    /\ Running
    /\ pc[g] = "ret"
    /\ muHolder' = [muHolder EXCEPT ![insts[loc[g].h].mu] = Free]
    /\ pc' = [pc EXCEPT ![g] = "done"]
    /\ UNCHANGED <<topts, noColor, insts, sink, loc, ncalls, mvars, rec, gvars, xvars>>

\* the caller has the result and may log again; once no call is in flight
\* the output is read and the buffer emptied (buf.Reset())
TextCallerResumes(g) ==
    /\ Running
    /\ pc[g] = "done"
    /\ pc' = [pc EXCEPT ![g] = "idle"]
    /\ loc' = [loc EXCEPT ![g] = IdleLocals]
    /\ sink' = IF \A o \in Goroutines \ {g} : pc[o] = "idle" THEN <<>> ELSE sink
    /\ UNCHANGED <<topts, noColor, insts, muHolder, ncalls, mvars, rec, gvars, xvars>>

(***************************************************************************)
(* Enabled                                                                 *)
(***************************************************************************)
EnabledLevels ==
    {LevelDebug - 1, LevelDebug, LevelInfo, LevelInfo + 1, LevelWarn, LevelError}

NoQuery == [handler |-> "none", level |-> LevelInfo, ret |-> FALSE, down |-> FALSE]

\* a logHandler.Enabled that would let through only levels above the minimum
LogHandlerEnabledAbove(opts, level) == level > opts.Level

\* logHandler.Enabled: level >= h.opts.Level.Level()
LogHandlerEnabled(opts, level) == level >= opts.Level

\* h.opts.Level is a nil slog.Leveler when the caller never assigned it,
\* and Level() called on it is a nil pointer dereference
NilLeveler == "runtime error: invalid memory address or nil pointer dereference"

TextEnabled(level) ==
    /\ Running
    /\ IF levelSet
       THEN /\ query' = [handler |-> "text", level |-> level,
                         ret |-> LogHandlerEnabled(topts, level), down |-> FALSE]
            /\ UNCHANGED fatal
       ELSE /\ fatal' = NilLeveler
            /\ UNCHANGED query
    /\ UNCHANGED <<mvars, rec, levelSet, grouped, tvars, colors, downLevel, sopts,
                   sourceCache, fpc, floc, nlookups>>

\* Enabled of the handler the wrapper embeds: any slog.Handler with a
\* minimum level of its own
DownstreamEnabled(level) == level >= downLevel

\* a wrapper Enabled that would also apply the counting minimum
SlogHandlerEnabledAtMinLevel(level) ==
    level >= options.MinLevel /\ DownstreamEnabled(level)

\* SlogHandler declares no Enabled: the call goes to the embedded
\* slog.Handler's method
SlogHandlerEnabled(level) == DownstreamEnabled(level)

MetricsEnabled(level) ==
    /\ constructed
    /\ query' = [handler |-> "metrics", level |-> level,
                 ret |-> SlogHandlerEnabled(level), down |-> DownstreamEnabled(level)]
    /\ UNCHANGED <<mvars, rec, gvars, tvars, colors, downLevel, sopts, sourceCache,
                   fpc, floc, nlookups>>

(***************************************************************************)
(* Assignments to the package's color variables                            *)
(***************************************************************************)
\* color.FgMagenta, which the README assigns to WarnColor
FgMagenta == 35

ColorNames == {"debug", "info", "warn", "error"}

\* what a caller assigns: no color, or an attribute of its choice
ColorValues == {0, FgMagenta, FgRed}

ColorName(level) ==
    CASE level = LevelDebug -> "debug"
      [] level = LevelInfo -> "info"
      [] level = LevelWarn -> "warn"
      [] level = LevelError -> "error"

\* sloghandler.WarnColor = color.FgMagenta, and the like
SetColor(name, value) ==
    /\ colors' = [colors EXCEPT ![name] = value]
    /\ UNCHANGED <<mvars, rec, gvars, tvars, query, downLevel, sopts, sourceCache,
                   fpc, floc, nlookups>>

(***************************************************************************)
(* Source paths: getFilePath and printSource                               *)
(***************************************************************************)
\* A path as the runtime reports a source file: already clean, an optional
\* leading separator and then names, none of them "." or "..".  The root
\* has no names; neither has ".", which is also what filepath makes of "".
Separator == "/"
DirNames == {"a", "b", "c"}
FileName == "file.go"
PathOf(abs, comps) == [abs |-> abs, comps |-> comps]
RootPath == PathOf(TRUE, <<>>)
DotPath == PathOf(FALSE, <<>>)
Paths ==
    { PathOf(abs, ds \o <<FileName>>) : abs \in BOOLEAN, ds \in SeqsUpTo(DirNames, MaxDirs) }
        \cup {RootPath, DotPath}

\* filepath.Join on names: the non-empty elements with separators between
RECURSIVE Join(_)
Join(parts) ==
    IF Len(parts) = 0 THEN ""
    ELSE IF Len(parts) = 1 THEN parts[1]
    ELSE parts[1] \o Separator \o Join(Tail(parts))

\* the path as a string
PathString(p) ==
    IF p.comps = <<>> THEN (IF p.abs THEN Separator ELSE ".")
    ELSE (IF p.abs THEN Separator ELSE "") \o Join(p.comps)

\* filepath.Base: the last element; the separator for the root, "." for
\* the empty path
Base(p) == IF p.comps = <<>> THEN PathString(p) ELSE p.comps[Len(p.comps)]

\* filepath.Dir: all but the last element, cleaned
Dir(p) ==
    IF p.comps = <<>> THEN p ELSE PathOf(p.abs, SubSeq(p.comps, 1, Len(p.comps) - 1))

\* a loop that would climb one directory too many
RECURSIVE ClimbInclusive(_, _, _, _)
ClimbInclusive(i, depth, parts, currentPath) ==
    IF /\ i <= depth
       /\ PathString(currentPath) # "."
       /\ PathString(currentPath) # Separator
       /\ PathString(currentPath) # ""
       /\ Dir(currentPath) # currentPath
    THEN ClimbInclusive(i + 1, depth, <<Base(currentPath)>> \o parts, Dir(currentPath))
    ELSE parts

\* the loop of getFilePath: one parent directory is put in front per round
RECURSIVE Climb(_, _, _, _)
Climb(i, depth, parts, currentPath) ==
    IF /\ i < depth
       /\ PathString(currentPath) # "."
       /\ PathString(currentPath) # Separator
       /\ PathString(currentPath) # ""
       /\ Dir(currentPath) # currentPath
    THEN Climb(i + 1, depth, <<Base(currentPath)>> \o parts, Dir(currentPath))
    ELSE parts

\* getFilePath past the cache lookup
ComputeFilePath(path, sourceDepth) ==
    LET depth == IF sourceDepth < 0 THEN 0 ELSE sourceDepth
    IN  IF depth = 0
        THEN Base(path)
        ELSE Join(Climb(0, depth, <<Base(path)>>, Dir(path)))

\* a cache key that would leave the path out
CacheKeyDepthOnly(path, depth) == [path |-> DotPath, depth |-> depth]

\* sourceCacheKey{path: path, depth: h.opts.SourceDepth}
CacheKey(path, depth) == [path |-> path, depth |-> depth]

SourceDepths == (0 - 1)..MaxDepth
SourceOptions == [Source : BOOLEAN, SourceDepth : SourceDepths]
NoSourceOptions == [Source |-> FALSE, SourceDepth |-> 0]

\* record.Source(): nil, or the file and line of the call site
NoSource == [present |-> FALSE, File |-> DotPath, Line |-> 0]
SourceAt(file, line) == [present |-> TRUE, File |-> file, Line |-> line]

IdlePathLocals ==
    [mode |-> "none", path |-> DotPath, result |-> "", h |-> 1,
     r |-> NoTextRecord, src |-> NoSource, buf |-> <<>>]

\* a caller enters getFilePath(path)
GetFilePath(g, path) ==
    /\ fpc[g] = "idle"
    /\ nlookups < MaxLookups
    /\ nlookups' = nlookups + 1
    /\ floc' = [floc EXCEPT ![g] = [IdlePathLocals EXCEPT !.mode = "format", !.path = path]]
    /\ fpc' = [fpc EXCEPT ![g] = "load"]
    /\ UNCHANGED <<mvars, rec, gvars, tvars, colors, query, downLevel, sopts, sourceCache>>

\* h.sourceCache.Load(cacheKey): a hit returns the stored bytes
FilePathLoad(g) ==
    /\ fpc[g] = "load"
    /\ LET key == CacheKey(floc[g].path, sopts.SourceDepth)
       IN  IF key \in DOMAIN sourceCache
           THEN /\ floc' = [floc EXCEPT ![g].result = sourceCache[key]]
                /\ fpc' = [fpc EXCEPT ![g] = "return"]
           ELSE /\ fpc' = [fpc EXCEPT ![g] = "store"]
                /\ UNCHANGED floc
    /\ UNCHANGED <<mvars, rec, gvars, tvars, colors, query, downLevel, sopts, sourceCache,
                   nlookups>>

\* a miss: the path is computed and h.sourceCache.Store(cacheKey, result)
FilePathStore(g) ==
    /\ fpc[g] = "store"
    /\ LET key == CacheKey(floc[g].path, sopts.SourceDepth)
           result == ComputeFilePath(floc[g].path, sopts.SourceDepth)
       IN  /\ sourceCache' =
                [k \in DOMAIN sourceCache \cup {key} |->
                    IF k = key THEN result ELSE sourceCache[k]]
           /\ floc' = [floc EXCEPT ![g].result = result]
    /\ fpc' = [fpc EXCEPT ![g] = "return"]
    /\ UNCHANGED <<mvars, rec, gvars, tvars, colors, query, downLevel, sopts, nlookups>>

\* the caller of getFilePath has the bytes
FilePathReturn(g) ==
    /\ fpc[g] = "return"
    /\ floc[g].mode = "format"
    /\ fpc' = [fpc EXCEPT ![g] = "idle"]
    /\ floc' = [floc EXCEPT ![g] = IdlePathLocals]
    /\ UNCHANGED <<mvars, rec, gvars, tvars, colors, query, downLevel, sopts, sourceCache,
                   nlookups>>

\* a printSource that would leave the line number out
PrintSourceNoLine(file, line) == " [" \o file \o "]"

\* printSource: fmt.Fprintf(buf, " [%s:%d]", file, s.Line)
PrintSource(file, line) == " [" \o file \o ":" \o ToString(line) \o "]"

\* Handle of a handler that has the Source option, up to the source suffix:
\* time, level, bound attributes and record attributes are in the buffer
SourceHandleBegin(g, i, r, src) ==
    /\ pc[g] = "idle"
    /\ fpc[g] = "idle"
    /\ i \in 1..Len(insts)
    /\ ncalls < MaxCalls
    /\ floc' = [floc EXCEPT ![g] =
                 [mode |-> "handle", path |-> DotPath, result |-> "", h |-> i,
                  r |-> r, src |-> src,
                  buf |-> <<FormatTime(r.Time), " [" \o LevelString(r.Level) \o "]">>
                          \o insts[i].preformatted \o RenderAttrs(r.Attrs)]]
    /\ fpc' = [fpc EXCEPT ![g] = IF sopts.Source THEN "source" ELSE "message"]
    /\ UNCHANGED <<mvars, rec, gvars, tvars, colors, query, downLevel, sopts, sourceCache,
                   nlookups>>

\* printSource: nothing is printed for a record without source information,
\* else the file goes through getFilePath
PrintSourceBegin(g) ==
    /\ fpc[g] = "source"
    /\ IF floc[g].src.present
       THEN /\ floc' = [floc EXCEPT ![g].path = floc[g].src.File]
            /\ fpc' = [fpc EXCEPT ![g] = "load"]
       ELSE /\ fpc' = [fpc EXCEPT ![g] = "message"]
            /\ UNCHANGED floc
    /\ UNCHANGED <<mvars, rec, gvars, tvars, colors, query, downLevel, sopts, sourceCache,
                   nlookups>>

\* printSource after getFilePath returned: the suffix goes into the buffer
PrintSourceEnd(g) ==
    /\ fpc[g] = "return"
    /\ floc[g].mode = "handle"
    /\ floc' = [floc EXCEPT ![g].buf = @ \o <<PrintSource(floc[g].result, floc[g].src.Line)>>]
    /\ fpc' = [fpc EXCEPT ![g] = "message"]
    /\ UNCHANGED <<mvars, rec, gvars, tvars, colors, query, downLevel, sopts, sourceCache,
                   nlookups>>

\* the message ends the line; Handle goes on to h.mu.Lock() and the write
SourceHandleMessage(g) ==
    /\ fpc[g] = "message"
    /\ ncalls' = ncalls + 1
    /\ loc' = [loc EXCEPT ![g] =
                [h |-> floc[g].h, r |-> floc[g].r,
                 buf |-> floc[g].buf \o <<" " \o floc[g].r.Message \o "\n">>,
                 fprint |-> 0, err |-> "nil", wfail |-> FALSE, call |-> ncalls + 1]]
    /\ pc' = [pc EXCEPT ![g] = "lock"]
    /\ fpc' = [fpc EXCEPT ![g] = "idle"]
    /\ UNCHANGED <<topts, noColor, insts, muHolder, sink, mvars, rec, gvars, colors, query,
                   downLevel, sopts, sourceCache, floc, nlookups>>

NoGroup == [recv |-> 0, name |-> "", ret |-> 0]

\* the package variables, the source options and the cache before any use;
\* ls tells whether the options came with a Level
ExtrasInitLevel(so, dl, ls) ==
    /\ levelSet = ls
    /\ grouped = NoGroup
    /\ fatal = "none"
    /\ colors = DefaultColors
    /\ query = NoQuery
    /\ downLevel = dl
    /\ sopts = so
    /\ sourceCache = <<>>
    /\ fpc = [g \in Goroutines |-> "idle"]
    /\ floc = [g \in Goroutines |-> IdlePathLocals]
    /\ nlookups = 0

ExtrasInit(so, dl) == ExtrasInitLevel(so, dl, TRUE)

ExtrasIdle == ExtrasInit(NoSourceOptions, LevelInfo)

(***************************************************************************)
(* Initial states of the text handler                                      *)
(***************************************************************************)
TextOptions == [Color : BOOLEAN, Level : {LevelInfo}]

\* the text handler right after NewLogHandler, nothing logged yet
TextInit(opts, nc) ==
    /\ topts = opts
    /\ noColor = nc
    /\ insts = <<RootHandler>>
    /\ muHolder = [m \in 1..(MaxInsts + 1) |-> Free]
    /\ sink = <<>>
    /\ pc = [g \in Goroutines |-> "idle"]
    /\ loc = [g \in Goroutines |-> IdleLocals]
    /\ ncalls = 0

TextIdle ==
    /\ TextInit([Color |-> FALSE, Level |-> LevelInfo], FALSE)
    /\ ExtrasIdle

\* the metrics wrappers, unused
MetricsIdle ==
    /\ backend = "prom"
    /\ minLevelSet = TRUE
    /\ options = DefaultOptions
    /\ constructed = FALSE
    /\ counter = EmptyCounter
    /\ derived = NoHandler
    /\ handled = [l \in RecordLevels |-> 0]
    /\ derivedSeen = 0
    /\ forwarded = [l \in RecordLevels |-> 0]
    /\ calls = 0
    /\ lastRet = "nil"
    /\ lastDownRet = "nil"
    /\ twin = EmptyCounter
    /\ rec = NoRecord

(***************************************************************************)
(* Specification of the text handler used by one goroutine                 *)
(***************************************************************************)
InitText ==
    /\ \E o \in TextOptions, nc \in BOOLEAN : TextInit(o, nc)
    /\ MetricsIdle
    /\ ExtrasIdle

BoundTextLists == { <<a>> : a \in TextAttrs }

NextText ==
    \/ \E i \in 1..MaxInsts, as \in BoundTextLists : TextWithAttrs(i, as)
    \/ \E i \in 1..MaxInsts, r \in TextRecords : TextHandleBegin("g1", i, r)
    \/ TextHandleLock("g1")
    \/ \E ok \in BOOLEAN : TextWriteStart("g1", ok)
    \/ \E ok \in BOOLEAN : TextWriteLine("g1", ok)
    \/ \E ok \in BOOLEAN : TextWriteReset("g1", ok)
    \/ TextHandleReturn("g1")
    \/ TextCallerResumes("g1")

SpecText == InitText /\ [][NextText]_vars

(***************************************************************************)
(* The text handler with WithGroup among its operations                    *)
(***************************************************************************)
GroupRecords == { r \in TextRecords : r.Level \in {LevelInfo, LevelWarn} }

NextGroup ==
    \/ \E i \in 1..MaxInsts, as \in BoundTextLists : TextWithAttrs(i, as)
    \/ \E i \in 1..MaxInsts, n \in TextGroupNames : TextWithGroup(i, n)
    \/ \E i \in 1..MaxInsts, r \in GroupRecords : TextHandleBegin("g1", i, r)
    \/ TextHandleLock("g1")
    \/ TextWriteStart("g1", TRUE)
    \/ TextWriteLine("g1", TRUE)
    \/ TextWriteReset("g1", TRUE)
    \/ TextHandleReturn("g1")
    \/ TextCallerResumes("g1")

SpecGroup == InitText /\ [][NextGroup]_vars

(***************************************************************************)
(* Specification of the text handler used by concurrent goroutines         *)
(***************************************************************************)
ConcurrentRecords ==
    { r \in TextRecords : r.Level \in {LevelInfo, LevelWarn} /\ r.Attrs = <<>> }

ConcurrentBound == { <<Attr("k1", StringValue("v1"))>> }

\* the goroutines share a sink whose writes succeed; a failing sink is the
\* subject of SpecText

InitConcurrent ==
    /\ \E o \in TextOptions, nc \in BOOLEAN : TextInit(o, nc)
    /\ MetricsIdle
    /\ ExtrasIdle

NextConcurrent ==
    \/ \E i \in 1..MaxInsts, as \in ConcurrentBound : TextWithAttrs(i, as)
    \/ \E g \in Goroutines, i \in 1..MaxInsts, r \in ConcurrentRecords : TextHandleBegin(g, i, r)
    \/ \E g \in Goroutines : TextHandleLock(g)
    \/ \E g \in Goroutines, ok \in {TRUE} : TextWriteStart(g, ok)
    \/ \E g \in Goroutines, ok \in {TRUE} : TextWriteLine(g, ok)
    \/ \E g \in Goroutines, ok \in {TRUE} : TextWriteReset(g, ok)
    \/ \E g \in Goroutines : TextHandleReturn(g)
    \/ \E g \in Goroutines : TextCallerResumes(g)

SpecConcurrent == InitConcurrent /\ [][NextConcurrent]_vars

(***************************************************************************)
(* Enabled asked of the text handler and of a metrics wrapper              *)
(***************************************************************************)
EnabledOptions == [Color : {FALSE}, Level : EnabledLevels]
DownLevels == {LevelDebug, LevelInfo, LevelError}

InitEnabled ==
    /\ backend \in {"prom", "otel"}
    /\ minLevelSet \in BOOLEAN
    /\ \E m \in MinLevels, la \in LabelConfigs :
          options = OptionsOf(minLevelSet, m, la)
    /\ constructed = TRUE
    /\ counter = InitLevels(backend, options, EmptyCounter, 1)
    /\ derived = NoHandler
    /\ handled = [l \in RecordLevels |-> 0]
    /\ derivedSeen = 0
    /\ forwarded = [l \in RecordLevels |-> 0]
    /\ calls = 0
    /\ lastRet = "nil"
    /\ lastDownRet = "nil"
    /\ twin = InitLevels(OtherBackend(backend), options, EmptyCounter, 1)
    /\ rec = NoRecord
    /\ \E o \in EnabledOptions : TextInit(o, FALSE)
    /\ \E dl \in DownLevels : ExtrasInit(NoSourceOptions, dl)

NextEnabled ==
    \/ \E l \in EnabledLevels : TextEnabled(l)
    \/ \E l \in EnabledLevels : MetricsEnabled(l)

SpecEnabled == InitEnabled /\ [][NextEnabled]_vars

(***************************************************************************)
(* The text handler built from options whose Level may have been left out: *)
(* &HandlerOptions{Color: c} leaves slog.HandlerOptions.Level nil          *)
(***************************************************************************)
InitUnset ==
    /\ \E o \in TextOptions, nc \in BOOLEAN : TextInit(o, nc)
    /\ MetricsIdle
    /\ \E ls \in BOOLEAN : ExtrasInitLevel(NoSourceOptions, LevelInfo, ls)

NextUnset ==
    \/ \E l \in EnabledLevels : TextEnabled(l)
    \/ \E r \in TextRecords : TextHandleBegin("g1", 1, r)
    \/ TextHandleLock("g1")
    \/ TextWriteStart("g1", TRUE)
    \/ TextWriteLine("g1", TRUE)
    \/ TextWriteReset("g1", TRUE)
    \/ TextHandleReturn("g1")
    \/ TextCallerResumes("g1")

SpecUnset == InitUnset /\ [][NextUnset]_vars

(***************************************************************************)
(* The text handler while the caller assigns the color variables           *)
(***************************************************************************)
ColorRecords == { r \in TextRecords : r.Attrs = <<>> }

InitColors ==
    /\ \E o \in TextOptions, nc \in BOOLEAN : TextInit(o, nc)
    /\ MetricsIdle
    /\ ExtrasIdle

\* the caller assigns between two log calls
SetColorIdle(name, value) == pc["g1"] = "idle" /\ SetColor(name, value)

NextColors ==
    \/ \E n \in ColorNames, v \in ColorValues : SetColorIdle(n, v)
    \/ \E r \in ColorRecords : TextHandleBegin("g1", 1, r)
    \/ TextHandleLock("g1")
    \/ TextWriteStart("g1", TRUE)
    \/ TextWriteLine("g1", TRUE)
    \/ TextWriteReset("g1", TRUE)
    \/ TextHandleReturn("g1")
    \/ TextCallerResumes("g1")

SpecColors == InitColors /\ [][NextColors]_vars

(***************************************************************************)
(* Two calls of the text handler whose output is kept, and the color       *)
(* variables assigned while no call is in flight                           *)
(***************************************************************************)
NoCallInFlight == \A g \in Goroutines : pc[g] \in {"idle", "done"}

SetColorBetween(name, value) == NoCallInFlight /\ SetColor(name, value)

NextRepeat ==
    \/ \E n \in ColorNames, v \in ColorValues : SetColorBetween(n, v)
    \/ \E g \in Goroutines, r \in ColorRecords : TextHandleBegin(g, 1, r)
    \/ \E g \in Goroutines : TextHandleLock(g)
    \/ \E g \in Goroutines : TextWriteStart(g, TRUE)
    \/ \E g \in Goroutines : TextWriteLine(g, TRUE)
    \/ \E g \in Goroutines : TextWriteReset(g, TRUE)
    \/ \E g \in Goroutines : TextHandleReturn(g)

SpecRepeat == InitColors /\ [][NextRepeat]_vars

(***************************************************************************)
(* One getFilePath call: the path and the depth are the inputs             *)
(***************************************************************************)
PathOptions == [Source : {TRUE}, SourceDepth : SourceDepths]

InitPath ==
    /\ TextInit([Color |-> FALSE, Level |-> LevelInfo], FALSE)
    /\ MetricsIdle
    /\ \E so \in PathOptions : ExtrasInit(so, LevelInfo)

FormatOne(path) == nlookups = 0 /\ GetFilePath("g1", path)

NextPath ==
    \/ \E path \in Paths : FormatOne(path)
    \/ FilePathLoad("g1")
    \/ FilePathStore("g1")
    \/ FilePathReturn("g1")

SpecPath == InitPath /\ [][NextPath]_vars

(***************************************************************************)
(* getFilePath called by concurrent goroutines                             *)
(***************************************************************************)
CachePaths ==
    { PathOf(TRUE, <<"a", FileName>>), PathOf(TRUE, <<"b", FileName>>),
      PathOf(TRUE, <<"a", "b", FileName>>) }

NextCache ==
    \/ \E g \in Goroutines, path \in CachePaths : GetFilePath(g, path)
    \/ \E g \in Goroutines : FilePathLoad(g)
    \/ \E g \in Goroutines : FilePathStore(g)
    \/ \E g \in Goroutines : FilePathReturn(g)

SpecCache == InitPath /\ [][NextCache]_vars

(***************************************************************************)
(* One Handle call of a handler with the Source option                     *)
(***************************************************************************)
SourceLineOptions == [Color : BOOLEAN, Level : {LevelInfo}]
SourceRecords == { r \in TextRecords : r.Level \in {LevelInfo, LevelWarn} }
SourceLine == 42
Sources ==
    { NoSource,
      SourceAt(PathOf(TRUE, <<"a", "b", "c", FileName>>), SourceLine),
      SourceAt(PathOf(FALSE, <<"a", FileName>>), SourceLine) }

InitSourceLine ==
    /\ \E o \in SourceLineOptions : TextInit(o, FALSE)
    /\ MetricsIdle
    /\ \E so \in SourceOptions : ExtrasInit(so, LevelInfo)

SourceHandleOne(i, r, src) == ncalls = 0 /\ SourceHandleBegin("g1", i, r, src)

NextSourceLine ==
    \/ \E as \in ConcurrentBound : TextWithAttrs(1, as)
    \/ \E i \in 1..MaxInsts, r \in SourceRecords, src \in Sources : SourceHandleOne(i, r, src)
    \/ PrintSourceBegin("g1")
    \/ FilePathLoad("g1")
    \/ FilePathStore("g1")
    \/ PrintSourceEnd("g1")
    \/ SourceHandleMessage("g1")
    \/ TextHandleLock("g1")
    \/ TextWriteStart("g1", TRUE)
    \/ TextWriteLine("g1", TRUE)
    \/ TextWriteReset("g1", TRUE)
    \/ TextHandleReturn("g1")
    \/ TextCallerResumes("g1")

SpecSourceLine == InitSourceLine /\ [][NextSourceLine]_vars

(***************************************************************************)
(* Specification of the metrics wrappers                                   *)
(***************************************************************************)
InitMetrics ==
    /\ backend \in {"prom", "otel"}
    /\ minLevelSet \in BOOLEAN
    /\ \E m \in MinLevels, la \in LabelConfigs :
          options = OptionsOf(minLevelSet, m, la)
    /\ constructed = FALSE
    /\ counter = EmptyCounter
    /\ derived = NoHandler
    /\ handled = [l \in RecordLevels |-> 0]
    /\ derivedSeen = 0
    /\ forwarded = [l \in RecordLevels |-> 0]
    /\ calls = 0
    /\ lastRet = "nil"
    /\ lastDownRet = "nil"
    /\ twin = EmptyCounter
    /\ rec = NoRecord
    /\ TextIdle

NextMetrics ==
    \/ NewHandlerWithOptions
    \/ \E r \in Records, e \in Errors : Handle(r, e)
    \/ \E as \in BoundLists : WithAttrs(as)
    \/ \E n \in GroupNames : WithGroup(n)
    \/ \E r \in Records : HandleDerived(r, "nil")

SpecMetrics == InitMetrics /\ [][NextMetrics]_vars

(***************************************************************************)
(* The wrapper alone: construction, then records through its Handle        *)
(***************************************************************************)
NextCount ==
    \/ NewHandlerWithOptions
    \/ \E r \in Records, e \in Errors : Handle(r, e)

SpecCount == InitMetrics /\ [][NextCount]_vars

(***************************************************************************)
(* One Handle call on a freshly constructed wrapper: the options and the   *)
(* record are the inputs                                                   *)
(***************************************************************************)
InitHandleOne ==
    /\ backend \in {"prom", "otel"}
    /\ minLevelSet \in BOOLEAN
    /\ \E m \in MinLevels, la \in LabelConfigs :
          options = OptionsOf(minLevelSet, m, la)
    /\ constructed = TRUE
    /\ counter = InitLevels(backend, options, EmptyCounter, 1)
    /\ derived = NoHandler
    /\ handled = [l \in RecordLevels |-> 0]
    /\ derivedSeen = 0
    /\ forwarded = [l \in RecordLevels |-> 0]
    /\ calls = 0
    /\ lastRet = "nil"
    /\ lastDownRet = "nil"
    /\ twin = InitLevels(OtherBackend(backend), options, EmptyCounter, 1)
    /\ rec \in Records
    /\ TextIdle

HandleOne(downErr) == calls = 0 /\ Handle(rec, downErr)

NextHandleOne == \E e \in Errors : HandleOne(e)

SpecHandleOne == InitHandleOne /\ [][NextHandleOne]_vars

(***************************************************************************)
(* One record handled after attributes were bound with WithAttrs: through  *)
(* the wrapper, or through the handler WithAttrs returned                  *)
(***************************************************************************)
HandleDerivedOne(downErr) == calls = 0 /\ HandleDerived(rec, downErr)

NextBound ==
    \/ \E as \in BoundLists : WithAttrs(as)
    \/ \E e \in Errors : HandleOne(e)
    \/ \E e \in Errors : HandleDerivedOne(e)

SpecBound == InitHandleOne /\ [][NextBound]_vars


(***************************************************************************)
(* Properties of the metrics wrappers                                      *)
(***************************************************************************)
RECURSIVE SumOver(_, _)
SumOver(S, f) ==
    IF S = {} THEN 0
    ELSE LET x == CHOOSE y \in S : TRUE IN f[x] + SumOver(S \ {x}, f)

\* the label values of a counter key, whichever backend wrote it
KeyValues(k) == [i \in DOMAIN k |-> LabelValue(backend, k[i])]

KeysAt(c, l) == { k \in DOMAIN c : KeyValues(k)[1] = LevelString(l) }

\* the counter value at level l, over all label tuples of that level
CountAt(c, l) == SumOver(KeysAt(c, l), c)

Total(c) == SumOver(DOMAIN c, c)

AllLevels == RecordLevels \cup {LevelError}

ValueOr0(c, k) == IF k \in DOMAIN c THEN c[k] ELSE 0

\* C1: on a wrapper with minimum level M, the counter value at every level
\* L >= M equals the number of records of level L that Handle was given, and
\* the counter value at every level below M stays 0 however many such records
\* were handled.
C1_CountsPerLevel ==
    \A l \in AllLevels :
        IF l >= options.MinLevel
        THEN CountAt(counter, l) = (IF l \in RecordLevels THEN handled[l] ELSE 0)
        ELSE CountAt(counter, l) = 0

\* one record below the minimum and one exactly at it were handled
C1_Witness ==
    \E l, m \in RecordLevels :
        /\ l < options.MinLevel /\ handled[l] = 1 /\ CountAt(counter, l) = 0
        /\ m = options.MinLevel /\ handled[m] = 1 /\ CountAt(counter, m) = 1

\* C2: Handle passes every record to the downstream handler exactly once,
\* counted or not, and returns what the downstream handler returned.
C2_ForwardsOnceReturnsDownstream ==
    /\ \A l \in RecordLevels : forwarded[l] = handled[l]
    /\ lastRet = lastDownRet

C2_Witness ==
    /\ \E l, m \in RecordLevels :
          /\ l < options.MinLevel /\ forwarded[l] = 1
          /\ m >= options.MinLevel /\ forwarded[m] = 1
    /\ lastRet = "downstream error"

\* the string values of the attributes of r whose key is name
MatchingValues(r, name) ==
    { ValueString(r.Attrs[j].Value) : j \in { i \in 1..Len(r.Attrs) : r.Attrs[i].Key = name } }

\* the label tuples C3 allows for r
C3_Allowed(opts, r, vals) ==
    /\ Len(vals) = 1 + Len(opts.LabelAttributes)
    /\ vals[1] = LevelString(r.Level)
    /\ \A i \in 1..Len(opts.LabelAttributes) :
          IF MatchingValues(r, opts.LabelAttributes[i]) = {}
          THEN vals[i + 1] = ""
          ELSE vals[i + 1] \in MatchingValues(r, opts.LabelAttributes[i])

\* the single call counted rec at key k and nowhere else
CountedOnceAt(k) ==
    /\ k \in DOMAIN counter
    /\ counter[k] = 1
    /\ \A o \in DOMAIN counter \ {k} : counter[o] = 0

\* C3: a counted record increments by 1 the label tuple made of the record's
\* level name followed, for each configured label name in order, by the
\* string value of a record attribute with that key, or "" when the record
\* has none; no attribute with an unconfigured key supplies a label value.
C3_LabelTuple ==
    (calls = 1 /\ rec.Level >= options.MinLevel) =>
        \E k \in DOMAIN counter :
            CountedOnceAt(k) /\ C3_Allowed(options, rec, KeyValues(k))

\* service is configured and carried, user is carried and not configured
C3_Witness ==
    /\ calls = 1
    /\ options.LabelAttributes = <<"service">>
    /\ rec.Attrs = <<Attr("user", StringValue("bob")), Attr("service", Int64Value(42))>>
    /\ \E k \in DOMAIN counter : counter[k] = 1 /\ KeyValues(k)[2] = "42"

\* C4: construction leaves the counter with exactly one entry, of value 0,
\* for every standard level at or above the minimum and none for a level
\* below it; the entry's label-attribute positions are all "".
C4_PreRegistered ==
    (constructed /\ calls = 0) =>
        \A i \in 1..Len(PredefinedLevels) :
            LET l == PredefinedLevels[i]
                ks == KeysAt(counter, l)
            IN IF l >= options.MinLevel
               THEN /\ Cardinality(ks) = 1
                    /\ \A k \in ks :
                          /\ counter[k] = 0
                          /\ Len(k) = 1 + Len(options.LabelAttributes)
                          /\ \A j \in 2..Len(k) : KeyValues(k)[j] = ""
               ELSE ks = {}

C4_Witness ==
    /\ constructed /\ calls = 0
    /\ options.MinLevel = LevelWarn
    /\ Len(options.LabelAttributes) = 2
    /\ Cardinality(DOMAIN counter) = 2

\* C5: WithAttrs and WithGroup return a wrapper again, so a record handled
\* through the derived handler is counted as it would be through the wrapper.
C5_DerivedStillCounts ==
    /\ derived.kind # "none" => derived.kind = "wrapper"
    /\ Total(counter) =
          SumOver({ l \in RecordLevels : l >= options.MinLevel }, handled) + derivedSeen

\* the first / last attribute of r with key name, as a label value
FirstMatch(r, name) ==
    LET idx == { i \in 1..Len(r.Attrs) : r.Attrs[i].Key = name }
    IN IF idx = {} THEN ""
       ELSE ValueString(r.Attrs[CHOOSE i \in idx : \A j \in idx : i <= j].Value)

LastMatch(r, name) ==
    LET idx == { i \in 1..Len(r.Attrs) : r.Attrs[i].Key = name }
    IN IF idx = {} THEN ""
       ELSE ValueString(r.Attrs[CHOOSE i \in idx : \A j \in idx : i >= j].Value)

\* C6 as claimed: with several attributes of a configured key, the label value
\* is the string value of the first of them in record order.
C6_FirstMatchWins ==
    (calls = 1 /\ rec.Level >= options.MinLevel) =>
        \E k \in DOMAIN counter :
            /\ CountedOnceAt(k)
            /\ \A i \in 1..Len(options.LabelAttributes) :
                  KeyValues(k)[i + 1] = FirstMatch(rec, options.LabelAttributes[i])

\* C6 amended: with several attributes of a configured key, the label value
\* is the string value of the last of them in record order.
C6_LastMatchWins ==
    (calls = 1 /\ rec.Level >= options.MinLevel) =>
        \E k \in DOMAIN counter :
            /\ CountedOnceAt(k)
            /\ \A i \in 1..Len(options.LabelAttributes) :
                  KeyValues(k)[i + 1] = LastMatch(rec, options.LabelAttributes[i])

\* a record with service=auth then service=42 was counted under "42"
C6_Witness ==
    /\ calls = 1
    /\ options.LabelAttributes = <<"service">>
    /\ rec.Attrs = <<Attr("service", StringValue("auth")), Attr("service", Int64Value(42))>>
    /\ \E k \in DOMAIN counter : counter[k] = 1 /\ KeyValues(k)[2] = "42"

\* C7: with MinLevel left unset, records of every level, debug included,
\* are counted.
C7_UnsetCountsAllLevels ==
    ~minLevelSet =>
        \A l \in RecordLevels : CountAt(counter, l) = handled[l]

(***************************************************************************)
(* Properties of the text handler                                          *)
(***************************************************************************)

\* C8: the handler WithAttrs(attrs) returns has a preformatted prefix equal
\* to the receiver's prefix followed by the rendering of attrs, so a chain
\* h.WithAttrs(A).WithAttrs(B) carries the attributes of A and then of B.
C8_PrefixExtendsReceiver ==
    \A i \in 1..Len(insts) :
        insts[i].parent # 0 =>
            insts[i].preformatted =
                insts[insts[i].parent].preformatted \o RenderAttrs(insts[i].given)

\* C9: Handle returns the error of the write to the sink, with and without
\* colour: an error if a write to the sink failed, nil only if none failed.
C9_ReturnsSinkError ==
    \A g \in Goroutines :
        pc[g] = "done" => ((loc[g].err = "write error") <=> loc[g].wfail)

CallsAt(i) == sink[i].call

\* C10: concurrent Handle calls on a handler and on handlers derived from it
\* by WithAttrs write to the sink one at a time: the bytes of one record's
\* line, colour escape and reset included, are never interleaved with those
\* of another record's line.
C10_LinesNotInterleaved ==
    \A i, j, k \in 1..Len(sink) :
        (i < j /\ j < k /\ CallsAt(i) = CallsAt(k)) => CallsAt(j) = CallsAt(i)

\* two goroutines are inside Handle on different handlers of one family: one
\* has written the escape and the line and is about to write the reset, the
\* other has built its line and waits for the mutex
C10_Witness ==
    \E g, w \in Goroutines :
        /\ g # w
        /\ pc[g] = "reset"
        /\ pc[w] = "lock"
        /\ loc[g].h # loc[w].h
        /\ insts[loc[g].h].mu = insts[loc[w].h].mu
        /\ muHolder[insts[loc[g].h].mu] = g
        /\ Len(sink) >= 2

(***************************************************************************)
(* Properties of Enabled, of the line format and of colors                 *)
(***************************************************************************)

\* C11: Enabled(level) of the text handler is true if and only if level is
\* at or above the configured minimum level: false for every level below
\* it, true for every level at or above it.
C11_EnabledIffAtOrAboveMinimum ==
    query.handler = "text" =>
        /\ (query.level < topts.Level => query.ret = FALSE)
        /\ (query.level >= topts.Level => query.ret = TRUE)

\* Enabled was asked at exactly the configured minimum and said yes
C11_Witness ==
    /\ query.handler = "text"
    /\ query.level = topts.Level
    /\ query.ret = TRUE

\* the attributes bound to handler i by the WithAttrs calls that led to it,
\* in binding order
RECURSIVE BoundAttrs(_)
BoundAttrs(i) ==
    IF insts[i].parent = 0 THEN <<>>
    ELSE BoundAttrs(insts[i].parent) \o insts[i].given

\* C12: every line Handle produces is, in this order: the timestamp, the
\* level tag, the handler-bound attributes in binding order, the record's
\* attributes in record order, and last the message followed by a newline.
C12_LinePartsInOrder ==
    \A g \in Goroutines :
        pc[g] # "idle" =>
            loc[g].buf =
                <<FormatTime(loc[g].r.Time), " [" \o LevelString(loc[g].r.Level) \o "]">>
                    \o RenderAttrs(BoundAttrs(loc[g].h))
                    \o RenderAttrs(loc[g].r.Attrs)
                    \o <<" " \o loc[g].r.Message \o "\n">>

\* the attributes an escape sequence of this model can carry
EscapeAttrs == {ColorReset, FgHiBlack, FgYellow, FgRed, FgMagenta}
IsEscape(b) == \E a \in EscapeAttrs : b = Escape(a)

\* the sink holds an ANSI escape sequence written by Handle call c
HasEscape(c) ==
    \E i \in 1..Len(sink) :
        /\ sink[i].call = c
        /\ \E j \in 1..Len(sink[i].bytes) : IsEscape(sink[i].bytes[j])

\* C13: with color disabled the output of Handle contains no ANSI escape
\* sequence at any level; with color enabled and the default colors the
\* output for a warn or error record contains one.  (Output: what a sink that
\* accepts the writes has received when Handle returns.)
C13_EscapeIffColorAndWarnOrError ==
    \A g \in Goroutines :
        (pc[g] = "done" /\ ~loc[g].wfail) =>
            /\ ~topts.Color => ~HasEscape(loc[g].call)
            /\ (topts.Color /\ loc[g].r.Level \in {LevelWarn, LevelError})
                   => HasEscape(loc[g].call)

\* C13 as amended: with color disabled the output contains no ANSI escape
\* sequence at any level; with color enabled, the default colors and the
\* color library's NoColor switch off, the output for a warn or error record
\* contains one.
C13_EscapeIffColorOnAndWarnOrError ==
    \A g \in Goroutines :
        (pc[g] = "done" /\ ~loc[g].wfail) =>
            /\ ~topts.Color => ~HasEscape(loc[g].call)
            /\ (topts.Color /\ ~noColor /\ loc[g].r.Level \in {LevelWarn, LevelError})
                   => HasEscape(loc[g].call)

\* a warn record was written in color: escape, line, reset
C13_Witness ==
    \E g \in Goroutines :
        /\ pc[g] = "done"
        /\ ~loc[g].wfail
        /\ topts.Color
        /\ ~noColor
        /\ loc[g].r.Level = LevelWarn
        /\ HasEscape(loc[g].call)
        /\ \E i \in 1..Len(sink) : sink[i].call = loc[g].call /\ sink[i].part = "line"

\* C14: with color enabled and the default colors, the output for a debug
\* record and for an info record contains no ANSI escape sequence.
C14_NoEscapeForDebugAndInfo ==
    \A g \in Goroutines :
        (/\ pc[g] = "done"
         /\ ~loc[g].wfail
         /\ topts.Color
         /\ colors = DefaultColors
         /\ loc[g].r.Level \in {LevelDebug, LevelInfo})
            => ~HasEscape(loc[g].call)

\* the color Handle call c was written in: the attribute of the escape
\* sequence in front of its line, 0 if there is none
StartOf(c) == { i \in 1..Len(sink) : sink[i].call = c /\ sink[i].part = "start" }
UsedColor(c) ==
    IF StartOf(c) = {} THEN 0
    ELSE CHOOSE a \in EscapeAttrs : sink[CHOOSE i \in StartOf(c) : TRUE].bytes = <<Escape(a)>>

\* C15: after the caller assigns a value to a level's color variable, the
\* no-color value included, every later record of that level rendered with
\* color enabled uses the assigned color.
C15_AssignedColorIsUsed ==
    \A g \in Goroutines :
        (pc[g] = "done" /\ ~loc[g].wfail /\ topts.Color /\ ~noColor) =>
            UsedColor(loc[g].call) = colors[ColorName(loc[g].r.Level)]

(***************************************************************************)
(* Properties of the source paths                                          *)
(***************************************************************************)
Min(a, b) == IF a <= b THEN a ELSE b

\* what the path formatter is to return: the file name after the last
\* min(depth, parents available) directory names, a negative depth counting
\* as zero; the root and the empty path have no file name and stay as they are
ExpectedFormat(path, depth) ==
    LET d == IF depth <= 0 THEN 0 ELSE depth
        n == Len(path.comps)
        k == Min(d, n - 1)
    IN  IF n = 0 THEN PathString(path)
        ELSE Join(SubSeq(path.comps, n - k, n))

ExamplePath == PathOf(TRUE, <<"a", "b", "c", FileName>>)

\* C17: getFilePath(path) at depth <= 0 returns the final path component
\* only; at depth > 0 it returns the last min(depth, parent directories
\* available) directory components followed by the file name, joined by the
\* separator, stopping early at the root or at the start of a relative path;
\* /a/b/c/file.go gives file.go at depth 0 and b/c/file.go at depth 2.
C17_FormatIsLastDepthComponents ==
    \A g \in Goroutines :
        (fpc[g] = "return" /\ floc[g].mode = "format") =>
            /\ floc[g].result = ExpectedFormat(floc[g].path, sopts.SourceDepth)
            /\ (floc[g].path = ExamplePath /\ sopts.SourceDepth = 0)
                   => floc[g].result = "file.go"
            /\ (floc[g].path = ExamplePath /\ sopts.SourceDepth = 2)
                   => floc[g].result = "b/c/file.go"

\* a path with fewer parent directories than the depth asks for was
\* formatted: the climb stopped early
C17_Witness ==
    \E g \in Goroutines :
        /\ fpc[g] = "return"
        /\ floc[g].mode = "format"
        /\ sopts.SourceDepth = 3
        /\ floc[g].path = PathOf(FALSE, <<"a", "b", FileName>>)
        /\ floc[g].result = "a/b/file.go"

\* every stored value is what getFilePath computes for its key without the cache
CacheHoldsComputed ==
    \A k \in DOMAIN sourceCache : sourceCache[k] = ComputeFilePath(k.path, k.depth)

\* every call about to return has the value computed for its path and depth,
\* so any two calls for one path and depth return the same
CallsAgree ==
    /\ \A g \in Goroutines :
          fpc[g] = "return" =>
              floc[g].result = ComputeFilePath(floc[g].path, sopts.SourceDepth)
    /\ \A g, w \in Goroutines :
          (fpc[g] = "return" /\ fpc[w] = "return" /\ floc[g].path = floc[w].path)
              => floc[g].result = floc[w].result

\* no step removes an entry or changes a stored value
CacheOnlyGrows ==
    \A k \in DOMAIN sourceCache :
        k \in DOMAIN sourceCache' /\ sourceCache'[k] = sourceCache[k]

\* C18: under any interleaving of concurrent getFilePath calls, racing
\* first lookups of one key included, every call for a given path and depth
\* returns the same value, a stored value never changes and equals the
\* uncached computation for its key, and no entry is ever removed.
C18_CacheStableUnderRaces ==
    [][CacheOnlyGrows /\ CacheHoldsComputed' /\ CallsAgree']_vars

\* two goroutines missed the cache for the same path; one has stored its
\* result and the other is about to store over it
C18_Witness ==
    \E g, w \in Goroutines :
        /\ g # w
        /\ fpc[g] = "return"
        /\ fpc[w] = "store"
        /\ floc[g].path = floc[w].path
        /\ CacheKey(floc[g].path, sopts.SourceDepth) \in DOMAIN sourceCache
        /\ sopts.SourceDepth > 0

\* the line Handle call of goroutine g is to write when the source is shown
ExpectedSourceLine(g) ==
    <<FormatTime(floc[g].r.Time), " [" \o LevelString(floc[g].r.Level) \o "]">>
        \o insts[floc[g].h].preformatted
        \o RenderAttrs(floc[g].r.Attrs)
        \o <<" [" \o ExpectedFormat(floc[g].src.File, sopts.SourceDepth) \o ":"
                  \o ToString(floc[g].src.Line) \o "]">>
        \o <<" " \o floc[g].r.Message \o "\n">>

LineWritten(c) == { i \in 1..Len(sink) : sink[i].call = c /\ sink[i].part = "line" }

C19_LabelTupleLength ==
    \A k \in DOMAIN counter : Len(k) = 1 + Len(options.LabelAttributes)

\* a record lacking the first of two configured label attributes was counted
C19_Witness ==
    /\ Len(options.LabelAttributes) = 2
    /\ \E k \in DOMAIN counter :
          /\ counter[k] >= 1
          /\ KeyValues(k)[2] = ""
          /\ KeyValues(k)[3] # ""
    /\ \E k \in DOMAIN counter : counter[k] = 0

\* C20: Enabled(level) of the metrics wrapper returns exactly what the
\* downstream handler's Enabled(level) returns, at every level and whatever
\* the wrapper's own minimum counting level.
C20_EnabledIsDownstreamEnabled ==
    query.handler = "metrics" => query.ret = query.down

\* the wrapper was asked about a level below its counting minimum that the
\* downstream handler lets through, and said yes
C20_Witness ==
    /\ query.handler = "metrics"
    /\ query.level < options.MinLevel
    /\ query.level >= downLevel
    /\ query.ret = TRUE

\* the values record r carries under key name; the empty string if none
RecordValues(r, name) ==
    IF \E i \in 1..Len(r.Attrs) : r.Attrs[i].Key = name
    THEN { ValueString(r.Attrs[i].Value) : i \in { j \in 1..Len(r.Attrs) : r.Attrs[j].Key = name } }
    ELSE {""}

\* C21: only the attributes of the record itself are looked at for the
\* labels: an attribute bound earlier with WithAttrs never gives a value to
\* any label tuple.
C21_LabelsFromRecordOnly ==
    \A k \in DOMAIN counter :
        counter[k] >= 1 =>
            \A i \in 1..Len(options.LabelAttributes) :
                KeyValues(k)[i + 1] \in RecordValues(rec, options.LabelAttributes[i])

\* an attribute named like a label was bound with WithAttrs, the record
\* handled afterwards does not carry it, and its label is empty
C21_Witness ==
    /\ derived.kind # "none"
    /\ Len(derived.bound) = 1
    /\ \E i \in 1..Len(options.LabelAttributes) :
          /\ options.LabelAttributes[i] = derived.bound[1].Key
          /\ RecordValues(rec, options.LabelAttributes[i]) = {""}
          /\ \E k \in DOMAIN counter : counter[k] >= 1 /\ KeyValues(k)[i + 1] = ""

(***************************************************************************)
(* Further properties of the text handler                                  *)
(***************************************************************************)
\* how an attribute is to appear in a line
ExpectedFragment(a) ==
    CASE a = Attr("", Int64Value(42)) -> " [42]"
      [] a = Attr("k1", StringValue("v1")) -> " [k1:v1]"

\* the record attributes as they stand in the buffer of goroutine g's call
RecordPart(g) ==
    SubSeq(loc[g].buf, 3 + Len(insts[loc[g].h].preformatted), Len(loc[g].buf) - 1)

\* C22: an attribute with an empty key is rendered " [value]" without a
\* colon and one with a key " [key:value]", the same for the record's
\* attributes rendered by Handle and for those WithAttrs binds.
C22_EmptyKeyWithoutColon ==
    /\ \A i \in 1..Len(insts) :
          insts[i].parent # 0 =>
              insts[i].preformatted =
                  [j \in 1..Len(insts[i].given) |-> ExpectedFragment(insts[i].given[j])]
    /\ \A g \in Goroutines :
          pc[g] # "idle" =>
              RecordPart(g) =
                  [j \in 1..Len(loc[g].r.Attrs) |-> ExpectedFragment(loc[g].r.Attrs[j])]

\* a record with a keyed attribute was written through a handler that has an
\* attribute with an empty key bound
C22_Witness ==
    \E g \in Goroutines :
        /\ pc[g] = "done"
        /\ insts[loc[g].h].given = <<Attr("", Int64Value(42))>>
        /\ loc[g].r.Attrs = <<Attr("k1", StringValue("v1"))>>
        /\ \E i \in 1..Len(sink) :
              /\ sink[i].part = "line"
              /\ sink[i].bytes[3] = " [42]"
              /\ sink[i].bytes[4] = " [k1:v1]"

\* C23: WithGroup(name) on the text handler returns the very instance it
\* was called on, for every name, and leaves its options, prefix, writer and
\* mutex as they were.
C23_WithGroupReturnsReceiver ==
    [][grouped' # grouped =>
          /\ grouped'.ret = grouped'.recv
          /\ insts' = insts
          /\ topts' = topts
          /\ muHolder' = muHolder
          /\ sink' = sink]_vars

\* WithGroup was called on a handler that WithAttrs returned, and returned it
C23_Witness ==
    /\ grouped.recv > 1
    /\ grouped.name = "g"
    /\ grouped.ret = grouped.recv
    /\ insts[grouped.ret].preformatted # <<>>

\* the bytes one call wrote, write by write
WrittenBy(c) ==
    LET mine == SelectSeq(sink, LAMBDA ch : ch.call = c)
    IN  [k \in 1..Len(mine) |-> mine[k].bytes]

\* C24: two Handle calls on handlers with the same options and the same
\* preformatted prefix, given the same record, write the same bytes, whatever
\* happened between them.
C24_SameInputsSameBytes ==
    \A g, o \in Goroutines :
        (/\ pc[g] = "done" /\ pc[o] = "done"
         /\ loc[g].r = loc[o].r
         /\ insts[loc[g].h].preformatted = insts[loc[o].h].preformatted)
        => WrittenBy(loc[g].call) = WrittenBy(loc[o].call)

\* C25: the preformatted bytes of a handler stay as they were when the
\* handler was made: no Handle on it, no WithAttrs on it, and nothing done
\* with a handler derived from it changes them.
C25_PrefixNeverChanges ==
    [][\A i \in 1..Len(insts) :
          /\ i <= Len(insts')
          /\ insts'[i].preformatted = insts[i].preformatted]_vars

\* a handler with a prefix has a child, and both have handled a record
C25_Witness ==
    /\ Len(insts) = 3
    /\ insts[2].preformatted # <<>>
    /\ insts[3].parent = 2
    /\ pc["g1"] = "done" /\ loc["g1"].h = 2
    /\ pc["g2"] = "done" /\ loc["g2"].h = 3

\* the writes of call c are a color-start sequence, the line of the call
\* without any escape sequence in it, and the reset sequence
WrappedAsOneUnit(g) ==
    LET out == WrittenBy(loc[g].call)
    IN  /\ Len(out) = 3
        /\ Len(out[1]) = 1 /\ IsEscape(out[1][1]) /\ out[1][1] # Escape(ColorReset)
        /\ out[2] = Line(insts[loc[g].h], loc[g].r)
        /\ \A j \in 1..Len(out[2]) : ~IsEscape(out[2][j])
        /\ out[3] = <<Escape(ColorReset)>>

\* C27: with color enabled and a color set for the record's level, what
\* Handle writes is one color-start sequence, the complete line without any
\* escape sequence between its tokens, and one reset sequence.
C27_ColorWrapsWholeLine ==
    \A g \in Goroutines :
        (/\ pc[g] = "done" /\ ~loc[g].wfail
         /\ topts.Color
         /\ colors[ColorName(loc[g].r.Level)] # 0)
        => WrappedAsOneUnit(g)

\* C27 as amended: the same with the color library's NoColor switch off.
C27_ColorOnWrapsWholeLine ==
    \A g \in Goroutines :
        (/\ pc[g] = "done" /\ ~loc[g].wfail
         /\ topts.Color /\ ~noColor
         /\ colors[ColorName(loc[g].r.Level)] # 0)
        => WrappedAsOneUnit(g)

\* an error record with an attribute, on a handler with a prefix, was written
\* in color
C27_Witness ==
    \E g \in Goroutines :
        /\ pc[g] = "done" /\ ~loc[g].wfail
        /\ topts.Color /\ ~noColor
        /\ loc[g].r.Level = LevelError
        /\ loc[g].r.Attrs # <<>>
        /\ insts[loc[g].h].preformatted # <<>>
        /\ WrappedAsOneUnit(g)

\* C28: no operation of the text handler ends in a fatal condition, Enabled
\* and Handle on a handler built from options whose Level was never set
\* included.
C28_NoFatalCondition == fatal = "none"

(***************************************************************************)
(* The two counter backends side by side, and the counter step by step     *)
(***************************************************************************)
\* the label values of a counter key of backend b
ValuesOf(b, k) == [i \in DOMAIN k |-> LabelValue(b, k[i])]

\* a counter of backend b read by label values: what was added at each
\* tuple of label values, the tuples registered with Add(0) included
ByValues(b, c) ==
    LET tuples == { ValuesOf(b, k) : k \in DOMAIN c }
    IN  [t \in tuples |-> c[CHOOSE k \in DOMAIN c : ValuesOf(b, k) = t]]

\* C26: given the same options and the same records, the prometheus wrapper
\* and the OpenTelemetry wrapper have added the same amounts at the same
\* tuples of label values, the zero pre-registrations included, after every
\* operation.
C26_BackendsCountAlike ==
    ByValues(backend, counter) = ByValues(OtherBackend(backend), twin)

\* a record was counted under a label value next to a pre-registered zero
C26_Witness ==
    /\ constructed
    /\ Len(options.LabelAttributes) > 0
    /\ \E k \in DOMAIN counter : counter[k] = 0
    /\ \E k \in DOMAIN counter : counter[k] >= 1 /\ ValuesOf(backend, k)[2] # ""
    /\ \E k \in DOMAIN twin : twin[k] >= 1 /\ ValuesOf(OtherBackend(backend), k)[2] # ""

\* the records Handle was given at or above the minimum level, by the
\* handler's books
CountedRecords(h) ==
    SumOver({ l \in RecordLevels : l >= options.MinLevel }, h)

\* exactly one tuple of c is one higher in d (0 counting for a tuple c has
\* not), and every other tuple is as it was
OneTupleRaised(c, d) ==
    /\ DOMAIN c \subseteq DOMAIN d
    /\ \E k \in DOMAIN d :
          /\ d[k] = ValueOr0(c, k) + 1
          /\ \A j \in DOMAIN d \ {k} : j \in DOMAIN c /\ d[j] = c[j]

\* C29: a Handle call of the wrapper on a record at or above the minimum
\* level raises exactly one label tuple's counter by exactly 1 and leaves
\* every other tuple as it was, and a call on a record below the minimum
\* leaves the whole counter as it was; so the counter values always add up to
\* the number of records handled at or above the minimum, records of levels
\* that have no name included, and no counter value ever goes down.
C29_OneTupleByOne ==
    [][/\ \A l \in RecordLevels :
            handled'[l] # handled[l] =>
                IF l >= options.MinLevel
                THEN OneTupleRaised(counter, counter')
                ELSE counter' = counter
       /\ \A k \in DOMAIN counter : k \in DOMAIN counter' /\ counter'[k] >= counter[k]
       /\ Total(counter') = CountedRecords(handled')]_vars

\* a record below the minimum and a record of a level without a name were
\* handled, and the counter holds the one
C29_Witness ==
    /\ constructed
    /\ options.MinLevel = LevelWarn
    /\ handled[LevelInfo] = 1
    /\ handled[LevelWarn + 1] = 1
    /\ Total(counter) = 1
    /\ \E k \in DOMAIN counter : counter[k] = 0

\* C30: Handle raises the counter before it forwards the record, so when the
\* downstream handler returns an error a record at or above the minimum level
\* is counted all the same, and Handle returns that error to its caller.
C30_CountedDespiteDownstreamError ==
    [][(handled' # handled /\ lastDownRet' = "downstream error") =>
          /\ lastRet' = "downstream error"
          /\ \A l \in RecordLevels :
                (handled'[l] # handled[l] /\ l >= options.MinLevel) =>
                    /\ Total(counter') = Total(counter) + 1
                    /\ CountAt(counter', l) = CountAt(counter, l) + 1]_vars

\* the one record handled was counted, and the downstream handler's error
\* came back
C30_Witness ==
    /\ calls = 1
    /\ lastDownRet = "downstream error"
    /\ lastRet = "downstream error"
    /\ handled[LevelWarn] = 1
    /\ CountAt(counter, LevelWarn) = 1

====
